---- MODULE Spec2Model ----
(***************************************************************************)
(* A model of openhands/resolver/resolve_all_issues.py: resolve_issues     *)
(* (the bounded-concurrency, resumable batch runner), update_progress (the *)
(* ledger append and progress report of one unit) and cleanup (the         *)
(* termination of child processes on KeyboardInterrupt).                   *)
(*                                                                         *)
(* The asyncio event loop runs one task step at a time: a step runs from   *)
(* one await that suspends to the next. cur names the task whose step is   *)
(* running (0: none); while cur # 0 no other task and no step of the main  *)
(* coroutine runs. Only a signal or the death of the process can fall      *)
(* between two statements of one step.                                     *)
(***************************************************************************)
EXTENDS Integers, Sequences, FiniteSets, TLC

\* ------------------------------------------------------------------ bounds
NumIssues == 3
MaxWorkers == 2
MaxPre == 2

Units == 1..NumIssues

\* issues: the unit list of get_converted_issues, in source order. A unit is
\* named by its issue number, unique in the list.
issues == [k \in 1..NumIssues |-> k]

\* ------------------------------------------------------------ ledger lines
\* resolved_output.model_dump_json(): one JSON object, here its tokens.
model_dump_json(number) == <<"{", number, "}">>

\* A line cut short by an abrupt stop of the writer: a proper prefix that still
\* names the unit.
Truncated(number) == <<"{", number>>

\* A deserializer that accepts a line cut short as long as it names the unit.
model_validate_json_lenient(line) ==
    /\ Len(line) >= 2
    /\ line[1] = "{"

\* ResolverOutput.model_validate_json(line): TRUE when the line deserializes.
model_validate_json(line) ==
    /\ Len(line) = 3
    /\ line[1] = "{"
    /\ line[3] = "}"

\* data.issue.number of a line that deserializes.
LineNumber(line) == line[2]

WellFormedLines == {model_dump_json(u) : u \in Units}
TruncatedLines == {Truncated(u) : u \in Units}

RECURSIVE SeqsUpTo(_, _)
SeqsUpTo(S, len) ==
    IF len = 0 THEN {<<>>}
    ELSE LET shorter == SeqsUpTo(S, len - 1)
         IN  shorter \cup {Append(s, x) : s \in {t \in shorter : Len(t) = len - 1}, x \in S}

\* The ledgers a run may find: up to MaxPre lines of earlier runs for
\* different units, in the order of their issue numbers, any of them
\* possibly cut short.
OnePerUnit(s) == \A a, b \in 1..Len(s) : a < b => s[a][2] < s[b][2]
InitialLedgers ==
    {s \in SeqsUpTo(WellFormedLines \cup TruncatedLines, MaxPre) : OnePerUnit(s)}

VARIABLES
    issue_type,        \* "issue" or "pr"
    num_workers,       \* the concurrency limit
    file_exists,       \* os.path.exists(output_file)
    ledger,            \* the lines of output.jsonl on disk
    pre,               \* the lines of output.jsonl when the run started
    finished_numbers,  \* the identifiers loaded from the ledger
    new_issues,        \* the units left after filtering out finished ones
    fp,                \* output_fp: "none", "open" or "closed"
    buf,               \* output_fp's write buffer (lines written, not flushed)
    n,                 \* pbar.n, the progress counter
    pc,                \* position of resolve_issues
    err,               \* the exception resolve_issues raised, "none" if none
    li,                \* number of iterations of the launch loop done
    tasks,             \* the coroutines created by the launch loop, in order
    tstate,            \* state of each unit's task
    sem,               \* the semaphore's value
    cur,               \* the task whose step is running, 0 if none
    children,          \* mp.active_children(): units whose child process is alive
    started,           \* units whose process_issue has started executing
    returned,          \* units whose process_issue has returned, in that order
    interrupted,       \* an interrupt signal has been received
    must_cancel,       \* the main task is to be cancelled at its next await
    gather_exc,        \* the first exception set on the gather future
    loop,              \* the event loop: "running" or "stopped"
    worktree           \* the branch checked out in repo_dir (0: base)

vars == <<issue_type, num_workers, file_exists, ledger, pre, finished_numbers,
          new_issues, fp, buf, n, pc, err, li, tasks, tstate, sem, cur, children,
          started, returned, interrupted, must_cancel, gather_exc, loop, worktree>>

config == <<issue_type, num_workers, pre>>
disk == <<file_exists, ledger>>
loaded == <<finished_numbers, new_issues>>
intr == <<interrupted, must_cancel>>
hist == <<started, returned>>

Init ==
    /\ issue_type \in {"issue", "pr"}
    /\ num_workers \in 1..MaxWorkers
    /\ file_exists \in BOOLEAN
    /\ ledger \in InitialLedgers
    /\ (~file_exists => ledger = <<>>)
    /\ pre = ledger
    /\ finished_numbers = {}
    /\ new_issues = <<>>
    /\ fp = "none"
    /\ buf = <<>>
    /\ n = 0
    /\ pc = "load"
    /\ err = "none"
    /\ li = 0
    /\ tasks = <<>>
    /\ tstate = [k \in Units |-> "none"]
    /\ sem = 0
    /\ cur = 0
    /\ children = {}
    /\ started = {}
    /\ returned = <<>>
    /\ interrupted = FALSE
    /\ must_cancel = FALSE
    /\ gather_exc = "none"
    /\ loop = "running"
    /\ worktree = 0

\* ------------------------------------------------------------- start-up
\* Lines 141-149: every line of an existing file is deserialized; the first
\* line that does not deserialize raises out of resolve_issues.
LoadOk(lines) == \A a \in 1..Len(lines) : model_validate_json(lines[a])
LoadedNumbers(lines) == {LineNumber(lines[a]) : a \in 1..Len(lines)}

Load ==
    /\ pc = "load"
    /\ IF file_exists /\ ~LoadOk(ledger)
       THEN /\ pc' = "raised"
            /\ err' = "ValidationError"
            /\ UNCHANGED finished_numbers
       ELSE /\ pc' = "open"
            /\ finished_numbers' = IF file_exists THEN LoadedNumbers(ledger) ELSE {}
            /\ UNCHANGED err
    /\ UNCHANGED <<config, disk, new_issues, fp, buf, n, li, tasks, tstate, sem, cur,
                   children, hist, intr, gather_exc, loop, worktree>>

\* Line 150: open(output_file, 'a') creates the file when it is missing and
\* leaves its content alone.
Open ==
    /\ pc = "open"
    /\ fp' = "open"
    /\ file_exists' = TRUE
    /\ pc' = "filter"
    /\ UNCHANGED <<config, ledger, loaded, buf, n, err, li, tasks, tstate, sem, cur,
                   children, hist, intr, gather_exc, loop, worktree>>

\* Lines 158-169: new_issues keeps the units whose number is not finished;
\* pbar = tqdm(total=len(issues)) starts the progress counter at 0.
Filter ==
    /\ pc = "filter"
    /\ new_issues' = SelectSeq(issues, LAMBDA num : num \notin finished_numbers)
    /\ n' = 0
    /\ pc' = "launch"
    /\ UNCHANGED <<config, disk, finished_numbers, fp, buf, err, li, tasks, tstate,
                   sem, cur, children, hist, intr, gather_exc, loop, worktree>>

\* ------------------------------------------------------------ launch loop
\* Line 176: the list the launch loop iterates.
LaunchList == issues

\* issue.head_branch of the unit at position k.
HeadBranch(k) == LaunchList[k]

\* Lines 176-211, one iteration: for issue_type 'pr' the working tree is
\* switched to the unit's head branch (check_output raises when git fails,
\* and nothing inside the try catches it); then the unit's coroutine is
\* created and appended to tasks. Creating the coroutine runs none of it.
Launch ==
    /\ pc = "launch"
    /\ li < Len(LaunchList)
    /\ \E checkout_ok \in BOOLEAN :
           IF issue_type = "pr" /\ ~checkout_ok
           THEN /\ pc' = "raised"
                /\ err' = "CalledProcessError"
                /\ UNCHANGED <<li, tasks, tstate, worktree>>
           ELSE /\ (issue_type # "pr" => checkout_ok)
                /\ worktree' = IF issue_type = "pr" THEN HeadBranch(li + 1) ELSE worktree
                /\ tasks' = Append(tasks, LaunchList[li + 1])
                /\ tstate' = [tstate EXCEPT ![LaunchList[li + 1]] = "created"]
                /\ li' = li + 1
                /\ UNCHANGED <<pc, err>>
    /\ UNCHANGED <<config, disk, loaded, fp, buf, n, sem, cur, children, hist,
                   intr, gather_exc, loop>>

\* --------------------------------------------------------------- gather
Unfinished == {"created", "queued", "running", "cancelling", "returned", "reported",
               "written"}
InStep == {"returned", "reported", "written"}

\* A cancellation that reaches only the children already executing and
\* leaves the ones waiting for a permit in the queue.
CancelExecutingOnly(ts, except) ==
    [u \in Units |->
        IF u # except /\ ts[u] = "running" THEN "cancelling" ELSE ts[u]]

\* Cancelling the gather future cancels every child that is not done. A
\* child that has not run or waits for the semaphore is cancelled there and
\* never runs process_issue. A child suspended inside process_issue has
\* CancelledError thrown into process_issue at its next step ("cancelling"):
\* what the executor does with it is the executor's business. The child
\* whose step is running (except) finishes that step.
CancelChildren(ts, except) ==
    [u \in Units |->
        IF u # except /\ ts[u] \in {"created", "queued"} THEN "cancelled"
        ELSE IF u # except /\ ts[u] = "running" THEN "cancelling"
        ELSE ts[u]]

\* Closing the loop ends every task that is left.
StopAll(ts) == [u \in Units |-> IF ts[u] \in Unfinished THEN "cancelled" ELSE ts[u]]

\* Lines 214-220: the semaphore is created with num_workers permits and
\* every coroutine is wrapped and handed to asyncio.gather. A main task
\* whose cancellation was requested during the launch loop is cancelled at
\* this await: the children are cancelled before their first step.
Gather ==
    /\ pc = "launch"
    /\ li = Len(LaunchList)
    /\ sem' = num_workers
    /\ IF must_cancel
       THEN /\ tstate' = [u \in Units |-> IF tstate[u] = "created" THEN "cancelled" ELSE tstate[u]]
            /\ pc' = "raised"
            /\ err' = "CancelledError"
       ELSE /\ tstate' = [u \in Units |-> IF tstate[u] = "created" THEN "queued" ELSE tstate[u]]
            /\ pc' = "gather"
            /\ UNCHANGED err
    /\ UNCHANGED <<config, disk, loaded, fp, buf, n, li, tasks, cur, children,
                   hist, intr, gather_exc, loop, worktree>>

\* The loop is between two steps: no task is in the middle of its step, and
\* resolve_issues is not in the middle of the step that runs from its
\* wake-up at line 220 through cleanup() and close() to its return.
LoopIdle ==
    /\ loop = "running"
    /\ cur = 0
    /\ pc \notin {"cleanup", "close"}

\* asyncio.Semaphore wakes its waiters in the order they began to wait, which
\* is the order of tasks.
FirstQueued(u) ==
    \E a \in 1..Len(tasks) :
        /\ tasks[a] = u
        /\ tstate[u] = "queued"
        /\ \A b \in 1..(a - 1) : tstate[tasks[b]] # "queued"

\* A wrapper that awaits the task without taking a permit.
AdmitWithoutPermit(u) == TRUE

\* Lines 216-218: `async with sem` admits the task when a permit is free.
Admit(u) == sem > 0

\* Lines 217-218, 38, 195: the task takes a permit and awaits update_progress,
\* which awaits process_issue: the executor starts. It may spawn a child
\* process that lives as long as the execution.
StartExecutor(u) ==
    /\ LoopIdle
    /\ FirstQueued(u)
    /\ Admit(u)
    /\ sem' = sem - 1
    /\ tstate' = [tstate EXCEPT ![u] = "running"]
    /\ started' = started \cup {u}
    /\ UNCHANGED returned
    /\ \E spawns \in BOOLEAN :
           children' = IF spawns THEN children \cup {u} ELSE children
    /\ UNCHANGED <<config, disk, loaded, fp, buf, n, pc, err, li, tasks, cur, intr,
                   gather_exc, loop, worktree>>

\* A return that runs while another task is in the middle of its step (as if
\* update_progress suspended between its statements).
ReturnInterleaved(u) ==
    /\ loop = "running"
    /\ tstate[u] \in {"running", "cancelling"}
    /\ tstate' = [tstate EXCEPT ![u] = "returned"]
    /\ cur' = u
    /\ children' = children \ {u}
    /\ returned' = Append(returned, u)
    /\ UNCHANGED <<config, disk, loaded, fp, buf, n, pc, err, li, tasks, sem, started,
                   intr, gather_exc, loop, worktree>>

\* Line 38: process_issue returns its ResolverOutput; the step goes on into
\* the rest of update_progress. An executor that was sent CancelledError may
\* still return its result (it is not bound to give up its work).
Return(u) ==
    /\ LoopIdle
    /\ tstate[u] \in {"running", "cancelling"}
    /\ tstate' = [tstate EXCEPT ![u] = "returned"]
    /\ cur' = u
    /\ children' = children \ {u}
    /\ returned' = Append(returned, u)
    /\ UNCHANGED <<config, disk, loaded, fp, buf, n, pc, err, li, tasks, sem, started,
                   intr, gather_exc, loop, worktree>>

\* A failure that leaves `async with` without giving the permit back.
RaiseKeepingPermit(u) ==
    /\ LoopIdle
    /\ tstate[u] = "running"
    /\ tstate' = [tstate EXCEPT ![u] = "failed"]
    /\ sem' = sem
    /\ children' = children \ {u}
    /\ gather_exc' = IF gather_exc = "none" THEN "ExecutionError" ELSE gather_exc
    /\ UNCHANGED <<config, disk, loaded, fp, buf, n, pc, err, li, tasks, cur, hist,
                   intr, loop, worktree>>

\* Line 38, 217: process_issue raises; the exception leaves update_progress
\* and run_with_semaphore, whose `async with` gives the permit back, and is
\* set on the gather future if it is the first.
Raise(u) ==
    /\ LoopIdle
    /\ tstate[u] = "running"
    /\ tstate' = [tstate EXCEPT ![u] = "failed"]
    /\ sem' = sem + 1
    /\ children' = children \ {u}
    /\ gather_exc' = IF gather_exc = "none" THEN "ExecutionError" ELSE gather_exc
    /\ UNCHANGED <<config, disk, loaded, fp, buf, n, pc, err, li, tasks, cur, hist,
                   intr, loop, worktree>>

\* Lines 38, 217: the CancelledError thrown into process_issue leaves it,
\* update_progress and run_with_semaphore, whose `async with` gives the
\* permit back. Nothing terminates the child process of the unit.
Unwind(u) ==
    /\ LoopIdle
    /\ tstate[u] = "cancelling"
    /\ tstate' = [tstate EXCEPT ![u] = "cancelled"]
    /\ sem' = sem + 1
    /\ UNCHANGED <<config, disk, loaded, fp, buf, n, pc, err, li, tasks, cur, children,
                   hist, intr, gather_exc, loop, worktree>>

\* ------------------------------------------------------ update_progress
\* Line 39: pbar.update(1).
Progress(u) ==
    /\ loop = "running"
    /\ cur = u
    /\ tstate[u] = "returned"
    /\ n' = n + 1
    /\ tstate' = [tstate EXCEPT ![u] = "reported"]
    /\ UNCHANGED <<config, disk, loaded, fp, buf, pc, err, li, tasks, sem, cur,
                   children, hist, intr, gather_exc, loop, worktree>>

\* A write that goes through whatever the state of the file object.
WriteUnchecked(u) ==
    /\ loop = "running"
    /\ cur = u
    /\ tstate[u] = "reported"
    /\ IF TRUE
       THEN /\ buf' = Append(buf, model_dump_json(u))
            /\ tstate' = [tstate EXCEPT ![u] = "written"]
            /\ UNCHANGED <<sem, cur, gather_exc>>
       ELSE /\ tstate' = [tstate EXCEPT ![u] = "failed"]
            /\ sem' = sem + 1
            /\ cur' = 0
            /\ gather_exc' = IF gather_exc = "none" THEN "ExecutionError" ELSE gather_exc
            /\ UNCHANGED buf
    /\ UNCHANGED <<config, disk, loaded, fp, n, pc, err, li, tasks, children, hist,
                   intr, loop, worktree>>

\* A write that leaves the line without its end.
WritePartial(u) ==
    /\ loop = "running"
    /\ cur = u
    /\ tstate[u] = "reported"
    /\ IF fp = "open"
       THEN /\ buf' = Append(buf, Truncated(u))
            /\ tstate' = [tstate EXCEPT ![u] = "written"]
            /\ UNCHANGED <<sem, cur, gather_exc>>
       ELSE /\ tstate' = [tstate EXCEPT ![u] = "failed"]
            /\ sem' = sem + 1
            /\ cur' = 0
            /\ gather_exc' = IF gather_exc = "none" THEN "ExecutionError" ELSE gather_exc
            /\ UNCHANGED buf
    /\ UNCHANGED <<config, disk, loaded, fp, n, pc, err, li, tasks, children, hist,
                   intr, loop, worktree>>

\* Line 47: output_fp.write(resolved_output.model_dump_json() + '\n'): the
\* line goes to the buffer of the file object. Writing to a closed file
\* raises ValueError, which ends the task like an executor failure.
Write(u) ==
    /\ loop = "running"
    /\ cur = u
    /\ tstate[u] = "reported"
    /\ IF fp = "open"
       THEN /\ buf' = Append(buf, model_dump_json(u))
            /\ tstate' = [tstate EXCEPT ![u] = "written"]
            /\ UNCHANGED <<sem, cur, gather_exc>>
       ELSE /\ tstate' = [tstate EXCEPT ![u] = "failed"]
            /\ sem' = sem + 1
            /\ cur' = 0
            /\ gather_exc' = IF gather_exc = "none" THEN "ExecutionError" ELSE gather_exc
            /\ UNCHANGED buf
    /\ UNCHANGED <<config, disk, loaded, fp, n, pc, err, li, tasks, children, hist,
                   intr, loop, worktree>>

\* A recording that keeps the lines of the run in the order of the unit list.
FlushSorted(u) ==
    /\ loop = "running"
    /\ cur = u
    /\ tstate[u] = "written"
    /\ ledger' = SubSeq(ledger, 1, Len(pre)) \o
                 SortSeq(SubSeq(ledger, Len(pre) + 1, Len(ledger)) \o buf,
                         LAMBDA x, y : x[2] < y[2])
    /\ buf' = <<>>
    /\ tstate' = [tstate EXCEPT ![u] = "done"]
    /\ sem' = sem + 1
    /\ cur' = 0
    /\ UNCHANGED <<config, file_exists, loaded, fp, n, pc, err, li, tasks, children,
                   hist, intr, gather_exc, loop, worktree>>

\* Line 48 and 217: output_fp.flush() puts the buffered line on disk;
\* update_progress returns and `async with` gives the permit back.
Flush(u) ==
    /\ loop = "running"
    /\ cur = u
    /\ tstate[u] = "written"
    /\ ledger' = ledger \o buf
    /\ buf' = <<>>
    /\ tstate' = [tstate EXCEPT ![u] = "done"]
    /\ sem' = sem + 1
    /\ cur' = 0
    /\ UNCHANGED <<config, file_exists, loaded, fp, n, pc, err, li, tasks, children,
                   hist, intr, gather_exc, loop, worktree>>

\* Permits given back by the running executions that a cancellation unwinds.
Released(ts, new) ==
    Cardinality({u \in Units : ts[u] \in {"running", "cancelling"} /\ new[u] = "cancelled"})

\* ------------------------------------------------- the end of the gather
\* Line 220: gather returns once every child has returned.
GatherDone ==
    /\ pc = "gather"
    /\ cur = 0
    /\ ~must_cancel
    /\ gather_exc = "none"
    /\ \A u \in Units : tstate[u] = "done"
    /\ pc' = "close"
    /\ UNCHANGED <<config, disk, loaded, fp, buf, n, err, li, tasks, tstate, sem, cur,
                   children, hist, intr, gather_exc, loop, worktree>>

\* A gather that cancels the other children when one of them fails.
MainRaiseCancelSiblings ==
    /\ pc = "gather"
    /\ cur = 0
    /\ ~must_cancel
    /\ gather_exc = "ExecutionError"
    /\ pc' = "raised"
    /\ err' = gather_exc
    /\ tstate' = CancelChildren(tstate, 0)
    /\ UNCHANGED <<config, disk, loaded, fp, buf, n, li, tasks, sem, cur,
                   children, hist, intr, gather_exc, loop, worktree>>

\* A handler that catches every exception of the gather and goes on to
\* close the file and return.
MainSwallow ==
    /\ pc = "gather"
    /\ cur = 0
    /\ ~must_cancel
    /\ gather_exc = "ExecutionError"
    /\ pc' = "close"
    /\ UNCHANGED <<config, disk, loaded, fp, buf, n, err, li, tasks, tstate, sem, cur,
                   children, hist, intr, gather_exc, loop, worktree>>

\* Lines 220-222: gather raises the first exception of a child into
\* resolve_issues; `except KeyboardInterrupt` does not catch it and line 226
\* is not reached. The other children are left as they are.
MainRaise ==
    /\ pc = "gather"
    /\ cur = 0
    /\ ~must_cancel
    /\ gather_exc = "ExecutionError"
    /\ pc' = "raised"
    /\ err' = gather_exc
    /\ UNCHANGED <<config, disk, loaded, fp, buf, n, li, tasks, tstate, sem, cur,
                   children, hist, intr, gather_exc, loop, worktree>>

\* Lines 220-222: the cancelled main task gets CancelledError at its await,
\* which `except KeyboardInterrupt` does not catch.
MainCancelled ==
    /\ pc = "gather"
    /\ cur = 0
    /\ must_cancel
    /\ pc' = "raised"
    /\ err' = "CancelledError"
    /\ UNCHANGED <<config, disk, loaded, fp, buf, n, li, tasks, tstate, sem, cur,
                   children, hist, intr, gather_exc, loop, worktree>>

\* Lines 220-223: a KeyboardInterrupt that ended a child is raised by gather
\* into resolve_issues and caught.
MainCatch ==
    /\ pc = "gather"
    /\ cur = 0
    /\ ~must_cancel
    /\ gather_exc = "KeyboardInterrupt"
    /\ pc' = "cleanup"
    /\ UNCHANGED <<config, disk, loaded, fp, buf, n, err, li, tasks, tstate, sem, cur,
                   children, hist, intr, gather_exc, loop, worktree>>

\* ------------------------------------------------------------ interrupts
\* An interrupt signal reaches the process either as a cancellation of the
\* main task (the handler asyncio.run installs) or as a KeyboardInterrupt
\* raised in the code that is running (the default handler).

\* During the launch loop, as a cancellation: requested, and delivered at
\* the next await, line 220.
InterruptLaunchCancel ==
    /\ pc = "launch"
    /\ ~interrupted
    /\ interrupted' = TRUE
    /\ must_cancel' = TRUE
    /\ UNCHANGED <<config, disk, loaded, fp, buf, n, pc, err, li, tasks, tstate, sem,
                   cur, children, hist, gather_exc, loop, worktree>>

\* During the launch loop, as a KeyboardInterrupt: raised inside the try of
\* line 174 and caught at line 222.
InterruptLaunchKI ==
    /\ pc = "launch"
    /\ ~interrupted
    /\ interrupted' = TRUE
    /\ pc' = "cleanup"
    /\ UNCHANGED <<config, disk, loaded, fp, buf, n, err, li, tasks, tstate, sem, cur,
                   children, hist, must_cancel, gather_exc, loop, worktree>>

\* While resolve_issues awaits the gather, as a cancellation: the gather is
\* cancelled and cancels its children.
InterruptGatherCancel ==
    /\ pc = "gather"
    /\ ~interrupted
    /\ interrupted' = TRUE
    /\ must_cancel' = TRUE
    /\ tstate' = CancelChildren(tstate, cur)
    /\ sem' = sem + Released(tstate, tstate')
    /\ UNCHANGED <<config, disk, loaded, fp, buf, n, pc, err, li, tasks, cur, children,
                   hist, gather_exc, loop, worktree>>

\* While resolve_issues awaits the gather, as a KeyboardInterrupt raised in
\* a step of the in-flight unit u: it ends u's task (the permit is given
\* back), is set on the gather future, and leaves the loop, which cancels
\* the tasks that are left.
InterruptGatherKI(u) ==
    /\ pc = "gather"
    /\ ~interrupted
    /\ gather_exc = "none"
    /\ \/ cur = 0 /\ tstate[u] = "running"
       \/ cur = u /\ tstate[u] \in InStep
    /\ interrupted' = TRUE
    /\ gather_exc' = "KeyboardInterrupt"
    /\ tstate' = CancelChildren([tstate EXCEPT ![u] = "failed"], 0)
    /\ sem' = sem + 1 + Released(tstate, tstate')
    /\ cur' = 0
    /\ UNCHANGED <<config, disk, loaded, fp, buf, n, pc, err, li, tasks, children,
                   hist, must_cancel, loop, worktree>>

\* ------------------------------------------------------- cleanup, close
\* Lines 26-31, 222-224: every active child is terminated and joined.
cleanup == {}

Cleanup ==
    /\ pc = "cleanup"
    /\ children' = cleanup
    /\ pc' = "close"
    /\ UNCHANGED <<config, disk, loaded, fp, buf, n, err, li, tasks, tstate, sem, cur,
                   hist, intr, gather_exc, loop, worktree>>

\* Line 226: output_fp.close() flushes what is buffered and closes the file.
Close ==
    /\ pc = "close"
    /\ ledger' = ledger \o buf
    /\ buf' = <<>>
    /\ fp' = "closed"
    /\ pc' = "finished"
    /\ UNCHANGED <<config, file_exists, loaded, n, err, li, tasks, tstate, sem, cur,
                   children, hist, intr, gather_exc, loop, worktree>>

\* Line 382: asyncio.run, once resolve_issues has returned or raised,
\* cancels the tasks that are left and closes the loop.
LoopShutdown ==
    /\ pc \in {"finished", "raised"}
    /\ loop = "running"
    /\ cur = 0
    /\ tstate' = StopAll(tstate)
    /\ sem' = sem + Released(tstate, tstate')
    /\ loop' = "stopped"
    /\ UNCHANGED <<config, disk, loaded, fp, buf, n, pc, err, li, tasks, cur, children,
                   hist, intr, gather_exc, worktree>>

\* The process dies (kill, power loss): what is on disk, what the operator
\* was shown and the child processes stay; the memory of the process,
\* the write buffer included, is gone.
Crash ==
    /\ loop = "running"
    /\ pc' = "crashed"
    /\ loop' = "stopped"
    /\ buf' = <<>>
    /\ cur' = 0
    /\ fp' = "none"
    /\ finished_numbers' = {}
    /\ new_issues' = <<>>
    /\ li' = 0
    /\ tasks' = <<>>
    /\ tstate' = [u \in Units |-> "none"]
    /\ sem' = 0
    /\ gather_exc' = "none"
    /\ must_cancel' = FALSE
    /\ err' = "none"
    /\ UNCHANGED <<config, disk, n, children, hist, interrupted, worktree>>

Next ==
    \/ Load
    \/ Open
    \/ Filter
    \/ Launch
    \/ Gather
    \/ \E u \in Units : StartExecutor(u)
    \/ \E u \in Units : Return(u)
    \/ \E u \in Units : Raise(u)
    \/ \E u \in Units : Unwind(u)
    \/ \E u \in Units : Progress(u)
    \/ \E u \in Units : Write(u)
    \/ \E u \in Units : Flush(u)
    \/ GatherDone
    \/ MainRaise
    \/ MainCancelled
    \/ MainCatch
    \/ InterruptLaunchCancel
    \/ InterruptLaunchKI
    \/ InterruptGatherCancel
    \/ \E u \in Units : InterruptGatherKI(u)
    \/ Cleanup
    \/ Close
    \/ LoopShutdown
    \/ Crash

Spec == Init /\ [][Next]_vars

\* The steps of a run that no interrupt and no death of the process
\* disturbs.
NextLive ==
    \/ Load
    \/ Open
    \/ Filter
    \/ Launch
    \/ Gather
    \/ \E u \in Units : StartExecutor(u)
    \/ \E u \in Units : Return(u)
    \/ \E u \in Units : Raise(u)
    \/ \E u \in Units : Progress(u)
    \/ \E u \in Units : Write(u)
    \/ \E u \in Units : Flush(u)
    \/ GatherDone
    \/ MainRaise
    \/ Close
    \/ LoopShutdown

\* The event loop runs every callback that is ready, resolve_issues runs on
\* when it can, and every executor that was started ends: a step that is
\* possible is eventually taken.
FairSpec == Init /\ [][NextLive]_vars /\ WF_vars(NextLive)

\* ================================================================ claims
IsPrefix(s, t) == Len(s) <= Len(t) /\ SubSeq(t, 1, Len(s)) = s

\* The lines appended to the ledger during this run.
AppendedLines == SubSeq(ledger, Len(pre) + 1, Len(ledger))

\* How many lines of a sequence are the result line of unit u.
LinesFor(lines, u) == Cardinality({a \in 1..Len(lines) : lines[a] = model_dump_json(u)})

\* The units with a well-formed line in the ledger when the run started.
CompletedAtStart == {u \in Units : LinesFor(pre, u) > 0}

\* A ledger with a line that was cut short.
HasCutLine(lines) == \E a \in 1..Len(lines) : lines[a] \in TruncatedLines

\* Well-formed lines followed by one line cut short.
CutTailOnly(lines) ==
    /\ Len(lines) >= 1
    /\ lines[Len(lines)] \in TruncatedLines
    /\ \A a \in 1..(Len(lines) - 1) : lines[a] \in WellFormedLines

\* The tasks inside `async with sem`: executing process_issue, or recording
\* its result before the permit is given back.
HoldingPermit == {u \in Units : tstate[u] \in {"running", "cancelling"} \cup InStep}

\* resolve_issues has returned or raised.
Ended == pc \in {"finished", "raised"}
NormalEnd == pc = "finished" /\ ~interrupted

\* C1: at every moment the number of units whose process_issue has started
\* and whose task has not yet left `async with sem` (so, a fortiori, the
\* number of executions started and not finished) is at most num_workers.
C1_AtMostNumWorkersInFlight == Cardinality(HoldingPermit) <= num_workers

\* C1 witness: the limit is reached with two executions in flight while
\* another unit waits for a permit.
C1_LimitReached ==
    /\ num_workers >= 2
    /\ Cardinality({u \in Units : tstate[u] = "running"}) = num_workers
    /\ \E u \in Units : tstate[u] = "queued"

\* C2 (as claimed): process_issue is never started for a unit whose issue
\* number was in the ledger when the run started.
C2_CompletedNeverStarted == started \cap CompletedAtStart = {}

\* C3 (as claimed): when the run completes normally, exactly one line was
\* appended for every unit not completed at start-up, and none for any other
\* identifier.
C3_OneLinePerPendingUnit ==
    NormalEnd =>
        \A u \in Units :
            LinesFor(AppendedLines, u) = IF u \in CompletedAtStart THEN 0 ELSE 1

\* C4 (as claimed): the start-up ledger stays an unchanged prefix of the
\* ledger, and after a normal completion the ledger holds exactly one result
\* line for every identifier of the unit list.
C4_AppendOnlyOneLineEach ==
    /\ IsPrefix(pre, ledger)
    /\ NormalEnd => \A u \in Units : LinesFor(ledger, u) = 1

\* C5: once the executor of some unit has failed, resolve_issues never goes
\* on to clean up, close and return normally (the failure is raised to the
\* caller, not dropped), the failed unit is not executed again, and every
\* step taken from then on leaves the lines already in the ledger in place
\* and unchanged.
C5_FailureSurfacedLinesKept ==
    [][/\ gather_exc' = "ExecutionError" => pc' \notin {"cleanup", "close", "finished"}
       /\ \A u \in Units : tstate[u] = "failed" => tstate'[u] \in {"failed", "none"}
       /\ gather_exc = "ExecutionError" => IsPrefix(ledger, ledger')]_vars

\* C5 witness: resolve_issues has raised the executor's failure and a line
\* appended for a sibling during the run is in the ledger.
C5_RaisedWithSiblingLine ==
    /\ pc = "raised"
    /\ err = "ExecutionError"
    /\ Len(AppendedLines) >= 1
    /\ \E u \in Units : tstate[u] = "failed"

\* C6 (as claimed): the progress counter of this run is never greater than
\* the number of ledger lines appended in this run, also in the state a
\* death of the process leaves behind.
C6_NoReportWithoutLine == n <= Len(ledger) - Len(pre)

\* C7 (as claimed): a ledger of well-formed lines followed by one line cut
\* short does not fail the load.
C7_CutTailTolerated == CutTailOnly(pre) => err # "ValidationError"

\* C8: a missing ledger file loads as the empty set without error; a ledger
\* with a line that does not deserialize fails the load with the run ending
\* in error before the file is opened for append, before any unit is
\* launched or started, and with the file content as it was.
C8_MissingEmptyCorruptFatal ==
    /\ ~file_exists => pc # "raised" /\ finished_numbers = {}
    /\ HasCutLine(pre) =>
           /\ pc \in {"load", "raised", "crashed"}
           /\ pc = "raised" => err = "ValidationError"
           /\ fp = "none"
           /\ tasks = <<>>
           /\ started = {}
           /\ ledger = pre

\* C8 witness: the load has failed on a ledger whose first line is well
\* formed and whose second line is not.
C8_LoadFailed ==
    /\ pc = "raised"
    /\ err = "ValidationError"
    /\ Len(pre) = 2
    /\ pre[1] \in WellFormedLines
    /\ ledger = pre

\* C9: once an interrupt has been received, no step starts process_issue
\* for a unit that had not started before.
C9_NoStartAfterInterrupt == [][interrupted => started' \subseteq started]_vars

\* C9 witness: after an interrupt a permit is free and a unit that never
\* started has been cancelled, while another unit had started.
C9_PermitFreeUnitNotStarted ==
    /\ interrupted
    /\ sem > 0
    /\ started # {}
    /\ \E u \in Units : u \notin started /\ tstate[u] = "cancelled"

\* C10 (as claimed): when an interrupted run has ended, no child process
\* spawned for a unit is alive.
C10_NoChildAliveAfterInterrupt == (interrupted /\ Ended) => children = {}

\* The unit of a line appended during the run.
AppendedUnit(a) == LineNumber(AppendedLines[a])

\* The units whose process_issue has returned.
ReturnedUnits == {returned[i] : i \in 1..Len(returned)}

\* C11: once resolve_issues has closed the ledger file, no step changes the
\* ledger, also when an execution that was in flight at the close returns
\* afterwards and update_progress tries to write its line.
C11_NoWriteAfterClose == [][fp = "closed" => ledger' = ledger]_vars

\* C11 witness: the file is closed and a unit that returned after the close
\* is about to write its line.
C11_WriteAttemptAfterClose ==
    /\ fp = "closed"
    /\ \E u \in Units : tstate[u] = "reported"

\* C12 (as claimed): a failure of the checkout of one unit's branch does not
\* end the run in error.
C12_CheckoutFailureNotFatal == err # "CalledProcessError"

\* C13: in every state every line appended during the run deserializes and
\* is the line of a unit whose process_issue had returned; no line was
\* appended for a unit that has not returned: one that is still queued, in
\* flight, or was cancelled or failed in process_issue.
C13_OnlyReturnedUnitsHaveLines ==
    /\ \A a \in 1..Len(AppendedLines) :
           /\ model_validate_json(AppendedLines[a])
           /\ AppendedLines[a] \in WellFormedLines
           /\ AppendedUnit(a) \in ReturnedUnits
    /\ \A u \in Units :
           tstate[u] \in {"created", "queued", "running", "cancelling", "cancelled"}
               => LinesFor(AppendedLines, u) = 0

\* C13 witness: after an interrupt the ledger holds a line appended in the
\* run, while a unit that was in flight has been cancelled and another has
\* failed.
C13_LinesAfterInterrupt ==
    /\ interrupted
    /\ Len(AppendedLines) >= 1
    /\ \E u \in started : tstate[u] = "cancelled"
    /\ \E u \in Units : tstate[u] = "failed"

\* C14: the recording of a result is one step of the event loop: at most one
\* task is between the return of its process_issue and the end of its flush,
\* and while it is, every step that changes the progress counter, the write
\* buffer or the ledger is a step of that task (or the death of the process).
C14_AppendsSerialized ==
    [][/\ Cardinality({u \in Units : tstate'[u] \in InStep}) <= 1
       /\ \A u \in Units : tstate'[u] \in InStep => cur' = u
       /\ (cur # 0 /\ (n' # n \/ buf' # buf \/ ledger' # ledger))
              => (tstate'[cur] # tstate[cur] \/ pc' = "crashed")]_vars

\* C14 witness: one unit is between its write and its flush while another
\* unit is executing.
C14_WritingWhileOtherExecutes ==
    \E u, v \in Units : tstate[u] = "written" /\ tstate[v] = "running"

\* C15: the lines appended during the run are in the order in which the
\* executors returned, whatever the launch order, and a unit that has
\* returned records its result in the step of its return, without waiting
\* for any other unit.
C15_CompletionOrder ==
    /\ \A a, b \in 1..Len(AppendedLines) :
           a < b => \E i, j \in 1..Len(returned) :
                        /\ i < j
                        /\ returned[i] = AppendedUnit(a)
                        /\ returned[j] = AppendedUnit(b)
    /\ \A u \in Units : tstate[u] \in InStep => cur = u

\* C15 witness: the line of a unit launched later is in the ledger before
\* the line of a unit launched earlier, which was still executing when the
\* first line was appended.
C15_LaterLaunchedRecordedFirst ==
    /\ Len(AppendedLines) = 1
    /\ \E u \in Units : u < AppendedUnit(1) /\ tstate[u] = "running"

\* C16 (as claimed): when resolve_issues has ended with the failure of an
\* executor, every sibling that had been started has run to completion.
C16_SiblingsCompleteBeforeEnd ==
    (pc = "raised" /\ err = "ExecutionError" /\ ~interrupted)
        => \A u \in started : tstate[u] \in {"done", "failed"}

\* C16 (amended): the failure of an executor and its propagation out of
\* resolve_issues cancel no sibling: as long as the event loop runs and no
\* interrupt arrives, a sibling in flight stays in flight or goes on to
\* record its result.
C16_FailureCancelsNoSibling ==
    [][(gather_exc' = "ExecutionError" /\ ~interrupted' /\ loop' = "running")
          => \A u \in Units :
                 tstate[u] \in {"running"} \cup InStep
                     => tstate'[u] \in {"running", "failed", "done"} \cup InStep]_vars

\* C16 witness: resolve_issues has raised the failure and a sibling is
\* recording its result afterwards.
C16_SiblingRecordsAfterRaise ==
    /\ pc = "raised"
    /\ err = "ExecutionError"
    /\ ~interrupted
    /\ \E u \in Units : tstate[u] = "written"

\* C17 (as claimed): the progress counter counts only the units processed in
\* this run: at normal completion it equals the number of units of the list
\* that were not completed at start-up.
C17_CounterCountsPendingUnits ==
    NormalEnd => n = Cardinality(Units \ CompletedAtStart)

\* C18 (as claimed): for issue_type 'pr', in the step in which the
\* process_issue of a unit starts, the working tree is on that unit's head
\* branch.
C18_OwnBranchAtStart ==
    [][issue_type = "pr" => \A u \in started' \ started : worktree' = HeadBranch(u)]_vars

\* C19 (as claimed): whenever resolve_issues has returned or raised after
\* opening the ledger, the file object is closed.
C19_ClosedOnEveryPath == (Ended /\ fp # "none") => fp = "closed"

\* The semaphore exists: the launch loop is over and the gather has begun.
Gathered == pc \in {"gather", "close", "finished"} \/ err = "ExecutionError"

\* C20 (as claimed): in a run without interrupt that has ended with the
\* event loop closed, every unit that was queued has started.
C20_EveryQueuedUnitStarts ==
    (loop = "stopped" /\ err = "ExecutionError") => \A u \in Units : u \in started

\* C20 (amended): without interrupt and under fair scheduling resolve_issues
\* eventually returns or raises; the permits held and the permits free always
\* add up to num_workers (a permit is given back when its unit finishes,
\* also when it raises); units are never queued with no unit in flight and
\* no permit free; and when resolve_issues has ended every queued unit has
\* started, unless an executor has raised.
C20_TerminatesPermitsReleased ==
    /\ <>Ended
    /\ [](Gathered => sem + Cardinality(HoldingPermit) = num_workers)
    /\ []((pc = "gather" /\ HoldingPermit = {} /\ \E u \in Units : tstate[u] = "queued")
              => sem > 0)
    /\ [](Ended => \A u \in Units :
                        tstate[u] = "queued" => gather_exc = "ExecutionError")
    /\ [](pc = "finished" => \A u \in Units : u \in started)

\* C20 witness: a run with fewer permits than units has completed normally
\* with every permit given back.
C20_CompletedWithFewerPermits ==
    /\ pc = "finished"
    /\ num_workers < NumIssues
    /\ sem = num_workers
    /\ \A u \in Units : tstate[u] = "done"

====
